---- MODULE Spec2Model ----
(***************************************************************************)
(* The Calendar page component (client/src/pages/Calendar.tsx) as a state  *)
(* machine: its useState hooks are the variables, its event handlers the   *)
(* actions, the store it talks to is the set of mutation requests whose    *)
(* promise has not settled yet.                                            *)
(***************************************************************************)
EXTENDS Integers, Sequences, FiniteSets, TLC

VARIABLES
    today,                \* the wall clock: what `new Date()` returns
    store,                \* useAppStore(): tasks, calendarEvents, goals, reminders, timeBlocks
    currentDate,          \* useState(new Date())
    selectedDate,         \* useState(new Date())
    viewType,             \* useState<ViewType>('month')
    showWorkload,         \* useState(false)
    isTaskFormOpen,       \* useState(false)
    isEventFormOpen,      \* useState(false)
    isTimeBlockFormOpen,  \* useState(false)
    isFocusModeOpen,      \* useState(false)
    isRecurrenceFormOpen, \* useState(false)
    editingItem,          \* useState<any>(null)
    draggedItem,          \* useState<CalendarItem | null>(null)
    draggedOver,          \* useState<Date | null>(null)
    searchQuery,          \* useState('')
    filterProject,        \* useState('all')
    filterType,           \* useState('all')
    mounted,              \* whether the mount effect has run
    pending,              \* the requests whose promise has not settled, with the awaiting handler
    toasts,               \* the notifications shown, in order
    unhandledRejections,  \* rejected promises nobody awaited or caught
    dragging              \* what the browser is dragging: nothing, an item, or a foreign object

envVars == <<today, store>>
viewVars == <<currentDate, selectedDate, viewType, showWorkload>>
modalVars == <<isTaskFormOpen, isEventFormOpen, isTimeBlockFormOpen, isFocusModeOpen,
               isRecurrenceFormOpen, editingItem>>
dragVars == <<draggedItem, draggedOver>>
filterVars == <<searchQuery, filterProject, filterType>>
asyncVars == <<mounted, pending, toasts, unhandledRejections>>
vars == <<envVars, viewVars, modalVars, dragVars, filterVars, asyncVars, dragging>>

\* JavaScript's null and undefined, in the shape of the values they stand in for
NullItem == [type |-> "null"]
NullDate == [null |-> TRUE]
InvalidDate == [invalid |-> TRUE]
NoIso == <<>>
NoText == <<"undefined">>
NoRecord == [kind |-> "undefined"]

-----------------------------------------------------------------------------
(* Dates.  A Date is [day, ms]: the local calendar day, counted from       *)
(* 1 January of BaseYear, and the milliseconds since local midnight.       *)

BaseYear == 2024
NumYears == 1
MsPerDay == 24 * 60 * 60 * 1000

Years == BaseYear .. (BaseYear + NumYears - 1)

IsLeap(y) == (y % 4 = 0 /\ y % 100 # 0) \/ y % 400 = 0

\* Month indices are JavaScript's: 0 = January .. 11 = December.
DaysInMonth(y, m) ==
    IF m = 1 THEN (IF IsLeap(y) THEN 29 ELSE 28)
    ELSE IF m \in {3, 5, 8, 10} THEN 30 ELSE 31

DaysInYear(y) == IF IsLeap(y) THEN 366 ELSE 365

RECURSIVE DaysBeforeYear(_)
DaysBeforeYear(y) ==
    IF y = BaseYear THEN 0
    ELSE IF y > BaseYear THEN DaysBeforeYear(y - 1) + DaysInYear(y - 1)
    ELSE DaysBeforeYear(y + 1) - DaysInYear(y)

RECURSIVE DaysBeforeMonth(_, _)
DaysBeforeMonth(y, m) ==
    IF m = 0 THEN 0 ELSE DaysBeforeMonth(y, m - 1) + DaysInMonth(y, m - 1)

\* new Date(y, m, d) as a day number
DayOfYMD(y, m, d) == DaysBeforeYear(y) + DaysBeforeMonth(y, m) + (d - 1)

MaxDay == DaysBeforeYear(BaseYear + NumYears) - 1
AllDays == 0 .. MaxDay

getFullYear(date) ==
    CHOOSE y \in Years :
        DaysBeforeYear(y) <= date.day /\ date.day < DaysBeforeYear(y) + DaysInYear(y)

getMonth(date) ==
    LET y == getFullYear(date)
        n == date.day - DaysBeforeYear(y)
    IN  CHOOSE m \in 0 .. 11 :
            DaysBeforeMonth(y, m) <= n /\ n < DaysBeforeMonth(y, m) + DaysInMonth(y, m)

getDate(date) ==
    LET y == getFullYear(date)
    IN  date.day - DaysBeforeYear(y) - DaysBeforeMonth(y, getMonth(date)) + 1

\* months since January of BaseYear: the value Date.setMonth normalises
MonthIndex(date) == (getFullYear(date) - BaseYear) * 12 + getMonth(date)

\* Date.setMonth alone: a day past the target month's end spills into the next month
addMonthsSpilling(date, amount) ==
    LET target == MonthIndex(date) + amount
    IN  [day |-> DayOfYMD(BaseYear + (target \div 12), target % 12, getDate(date)),
         ms |-> date.ms]

\* date-fns addMonths: the day of the month is kept unless the target month
\* is shorter, and then the target month's last day is returned.
addMonths(date, amount) ==
    LET dayOfMonth == getDate(date)
        target == MonthIndex(date) + amount
        y == BaseYear + (target \div 12)
        m == target % 12
        daysInMonth == DaysInMonth(y, m)
    IN  IF dayOfMonth >= daysInMonth
        THEN [day |-> DayOfYMD(y, m, daysInMonth), ms |-> date.ms]
        ELSE [day |-> DayOfYMD(y, m, dayOfMonth), ms |-> date.ms]

\* a month taken to be thirty days
subMonthsAsThirtyDays(date, amount) == [day |-> date.day - 30 * amount, ms |-> date.ms]

subMonths(date, amount) == addMonths(date, -amount)

\* date-fns addDays: setDate(getDate() + amount), local time of day kept
addDays(date, amount) == [day |-> date.day + amount, ms |-> date.ms]

addWeeks(date, amount) == addDays(date, amount * 7)

subWeeks(date, amount) == addWeeks(date, -amount)

\* new Date(prev.getTime() + deltaMs), for a delta of whole days
addMillis(date, deltaMs) ==
    LET total == date.ms + deltaMs
    IN  [day |-> date.day + (total \div MsPerDay), ms |-> total % MsPerDay]

startOfDay(date) == [day |-> date.day, ms |-> 0]

isSameDay(a, b) == a.day = b.day


\* parseISO: an absent or malformed string gives an Invalid Date
parseISO(iso) == IF iso = NoIso THEN InvalidDate ELSE [day |-> iso[1], ms |-> iso[2]]

\* Date.prototype.toISOString of a valid date (it throws RangeError on an invalid one)
toISOString(date) == <<date.day, date.ms>>

\* a.getTime() - b.getTime() of two valid dates
timeDiff(a, b) == (a.day - b.day) * MsPerDay + (a.ms - b.ms)

\* date-fns isBefore
isBefore(a, b) == a.day < b.day \/ (a.day = b.day /\ a.ms < b.ms)

\* Date.getDay(): 0 = Sunday.  1 January of year y falls on weekday
\* (1 + 5((y-1) mod 4) + 4((y-1) mod 100) + 6((y-1) mod 400)) mod 7.
getDay(date) ==
    LET y == BaseYear - 1
        jan1 == (1 + 5 * (y % 4) + 4 * (y % 100) + 6 * (y % 400)) % 7
    IN  (jan1 + date.day) % 7

startOfWeek(date) == [day |-> date.day - getDay(date), ms |-> 0]

endOfWeek(date) == [day |-> date.day + (6 - getDay(date)), ms |-> MsPerDay - 1]

startOfMonth(date) == [day |-> date.day - (getDate(date) - 1), ms |-> 0]

endOfMonth(date) ==
    [day |-> date.day - getDate(date) + DaysInMonth(getFullYear(date), getMonth(date)),
     ms |-> MsPerDay - 1]

\* eachDayOfInterval: the start of every day from start's day to end's day
eachDayOfInterval(start, end) == {[day |-> d, ms |-> 0] : d \in start.day .. end.day}

-----------------------------------------------------------------------------
(* Strings are sequences of one-character strings.                         *)

Lower(c) == IF c = "A" THEN "a" ELSE IF c = "B" THEN "b" ELSE c

toLowerCase(str) == [i \in 1 .. Len(str) |-> Lower(str[i])]

\* String.prototype.includes
includes(str, sub) ==
    \E i \in 0 .. (Len(str) - Len(sub)) : SubSeq(str, i + 1, i + Len(sub)) = sub

-----------------------------------------------------------------------------
(* The store's records and the calendar items made of them.                *)

NoProject == "undefined"

ItemTypes == {"task", "event", "goal", "reminder", "timeblock"}

Task(id, title, description, project, dueDate, isAutoRolled) ==
    [kind |-> "task", id |-> id, title |-> title, description |-> description,
     project |-> project, dueDate |-> dueDate, isAutoRolled |-> isAutoRolled]

Event(id, title, description, project, startDate, endDate) ==
    [kind |-> "event", id |-> id, title |-> title, description |-> description,
     project |-> project, startDate |-> startDate, endDate |-> endDate]

TimeBlock(id, title, description, project, startTime, endTime) ==
    [kind |-> "timeblock", id |-> id, title |-> title, description |-> description,
     project |-> project, startTime |-> startTime, endTime |-> endTime]

Goal(id, title, description, project, targetDate) ==
    [kind |-> "goal", id |-> id, title |-> title, description |-> description,
     project |-> project, targetDate |-> targetDate]

Reminder(id, title, description, project, dueDate) ==
    [kind |-> "reminder", id |-> id, title |-> title, description |-> description,
     project |-> project, dueDate |-> dueDate]

CalendarItem(rec, type, startTime, endTime) ==
    [id |-> rec.id, title |-> rec.title, description |-> rec.description,
     project |-> rec.project, type |-> type, date |-> parseISO(startTime),
     startTime |-> startTime, endTime |-> endTime, originalItem |-> rec]

toCalendarItem(rec) ==
    CASE rec.kind = "task" -> CalendarItem(rec, "task", rec.dueDate, NoIso)
      [] rec.kind = "event" -> CalendarItem(rec, "event", rec.startDate, rec.endDate)
      [] rec.kind = "timeblock" -> CalendarItem(rec, "timeblock", rec.startTime, rec.endTime)
      [] rec.kind = "goal" -> CalendarItem(rec, "goal", rec.targetDate, NoIso)
      [] rec.kind = "reminder" -> CalendarItem(rec, "reminder", rec.dueDate, NoIso)

MapSeq(seq, Op(_)) == [i \in 1 .. Len(seq) |-> Op(seq[i])]

convertToCalendarItems(tasks, events, goals, reminders, timeBlocks) ==
    MapSeq(tasks \o events \o goals \o reminders \o timeBlocks, toCalendarItem)

\* an overdue task (due before the start of the current day) is moved to the
\* current day and flagged; every other task is returned as it is
rollTask(task, now) ==
    IF isBefore(parseISO(task.dueDate), startOfDay(now))
    THEN [task EXCEPT !.dueDate = toISOString(startOfDay(now)), !.isAutoRolled = TRUE]
    ELSE task

autoRolloverTasks(tasks, now) == [i \in 1 .. Len(tasks) |-> rollTask(tasks[i], now)]

calendarItems ==
    convertToCalendarItems(store.tasks, store.calendarEvents, store.goals,
                           store.reminders, store.timeBlocks)

Range(seq) == {seq[i] : i \in 1 .. Len(seq)}

\* item.description?.toLowerCase().includes(q): undefined when there is no description
descriptionMatches(item, query) ==
    IF item.description = NoText THEN FALSE
    ELSE includes(toLowerCase(item.description), toLowerCase(query))

\* the query is compared as typed, only the item's text is lower-cased
matchesSearchQueryAsTyped(item, query) ==
    includes(toLowerCase(item.title), query)
    \/ (item.description # NoText /\ includes(toLowerCase(item.description), query))

matchesSearch(item, query) ==
    includes(toLowerCase(item.title), toLowerCase(query)) \/ descriptionMatches(item, query)

matchesProject(item, project) == project = "all" \/ item.project = project

matchesType(item, type) == type = "all" \/ item.type = type

filterItems(items, query, project, type) ==
    LET keep(item) == matchesSearch(item, query) /\ matchesProject(item, project)
                      /\ matchesType(item, type)
    IN  SelectSeq(items, keep)

filteredItems == filterItems(calendarItems, searchQuery, filterProject, filterType)

\* Array.from(new Set(calendarItems.map(item => item.project).filter(Boolean)))
projects == {item.project : item \in Range(calendarItems)} \ {NoProject}

-----------------------------------------------------------------------------
(* What is on the screen: the day cells and the items the user can reach.  *)

\* renderMonthView's calendarDays
calendarDays ==
    eachDayOfInterval(startOfWeek(startOfMonth(currentDate)),
                      endOfWeek(endOfMonth(currentDate)))

\* renderWeekView's weekDays
weekDays == eachDayOfInterval(startOfWeek(currentDate), endOfWeek(currentDate))

dayItemsOf(items, day) ==
    LET onDay(item) == isSameDay(item.date, day)
    IN  SelectSeq(items, onDay)

dayItems(day) == dayItemsOf(filteredItems, day)

\* dayItems.slice(0, 3)
slice3(seq) == SubSeq(seq, 1, IF Len(seq) < 3 THEN Len(seq) ELSE 3)

\* the day cells that take onDragOver / onDrop
dropCells ==
    IF viewType = "month" THEN calendarDays
    ELSE IF viewType = "week" THEN weekDays
    ELSE {}

\* the items rendered with draggable / onDragStart
draggableItems ==
    LET items == filteredItems
    IN  IF viewType = "month"
        THEN UNION {Range(slice3(dayItemsOf(items, day))) : day \in calendarDays}
        ELSE IF viewType = "week"
        THEN UNION {Range(dayItemsOf(items, day)) : day \in weekDays}
        ELSE {}

\* the items rendered with an onClick that calls handleEditItem
clickableItems == IF viewType = "list" THEN Range(filteredItems) ELSE draggableItems

-----------------------------------------------------------------------------
(* The store's mutation operations and the notifications.                  *)

\* The notifications are kept as a log; a handler that ends in a notification
\* is started only while the log, with the handlers already under way, has room.
MaxToasts == 1

toastsDue == Cardinality({p \in pending : p.handler # "rollover"})

roomForToast == Len(toasts) + toastsDue < MaxToasts

\* the number given to a new request: the least one no request in flight has
freshTicket == CHOOSE n \in 1 .. (Cardinality(pending) + 1) :
                   /\ \A p \in pending : p.ticket # n
                   /\ \A m \in 1 .. (n - 1) : \E p \in pending : p.ticket = m

StoreCall(op, id, updates) == [op |-> op, id |-> id, updates |-> updates]

Toast(title, description) == [title |-> title, description |-> description]

successToast == Toast("actions.success", "calendar.dragToReschedule - actions.completed")
rescheduleErrorToast == Toast("actions.error", "calendar.rescheduleError")
updateErrorToast == Toast("actions.error", "calendar.updateError")

\* a request in flight: the call, its number, and the handler that resumes
\* (or, for the mount effect, does not) when its promise settles
Awaiting(handler, call, ticket) == [handler |-> handler, call |-> call, ticket |-> ticket]

-----------------------------------------------------------------------------
(* The mount effect.                                                       *)

\* rolledTasks.filter((task, index) => task.isAutoRolled !== tasks[index].isAutoRolled)
RECURSIVE filterRolled(_, _, _)
filterRolled(rolledTasks, tasks, index) ==
    IF index > Len(rolledTasks) THEN <<>>
    ELSE (IF rolledTasks[index].isAutoRolled # tasks[index].isAutoRolled
          THEN <<rolledTasks[index]>> ELSE <<>>)
         \o filterRolled(rolledTasks, tasks, index + 1)

tasksToUpdate(tasks, now) == filterRolled(autoRolloverTasks(tasks, now), tasks, 1)

rolloverCalls(tasks, now) ==
    LET todo == tasksToUpdate(tasks, now)
    IN  [i \in 1 .. Len(todo) |->
            StoreCall("updateTask", todo[i].id,
                      [dueDate |-> todo[i].dueDate, isAutoRolled |-> TRUE])]

\* useEffect(() => {...}, []): the calls are fired and their promises dropped
MountEffect ==
    /\ ~mounted
    /\ mounted' = TRUE
    /\ LET calls == rolloverCalls(store.tasks, today)
       IN  pending' = pending \cup {Awaiting("rollover", calls[i], i) : i \in 1 .. Len(calls)}
    /\ UNCHANGED <<envVars, viewVars, modalVars, dragVars, filterVars, toasts,
                   unhandledRejections, dragging>>

-----------------------------------------------------------------------------
(* Navigation and view controls.                                           *)

navigatePreviousDate(view, prev) ==
    IF view = "month" THEN subMonths(prev, 1)
    ELSE IF view = "week" THEN subWeeks(prev, 1)
    ELSE IF view = "day" THEN addMillis(prev, -(24 * 60 * 60 * 1000))
    ELSE prev

navigateNextDate(view, prev) ==
    IF view = "month" THEN addMonths(prev, 1)
    ELSE IF view = "week" THEN addWeeks(prev, 1)
    ELSE IF view = "day" THEN addMillis(prev, 24 * 60 * 60 * 1000)
    ELSE prev

\* the model's calendar ends: a step that would leave it is not taken
NavigationInRange(date) == date.day \in AllDays

navigatePrevious ==
    /\ mounted
    /\ NavigationInRange(navigatePreviousDate(viewType, currentDate))
    /\ currentDate' = navigatePreviousDate(viewType, currentDate)
    /\ UNCHANGED <<envVars, selectedDate, viewType, showWorkload, modalVars, dragVars,
                   filterVars, asyncVars, dragging>>

navigateNext ==
    /\ mounted
    /\ NavigationInRange(navigateNextDate(viewType, currentDate))
    /\ currentDate' = navigateNextDate(viewType, currentDate)
    /\ UNCHANGED <<envVars, selectedDate, viewType, showWorkload, modalVars, dragVars,
                   filterVars, asyncVars, dragging>>

navigateToday ==
    /\ mounted
    /\ currentDate' = today
    /\ selectedDate' = today
    /\ UNCHANGED <<envVars, viewType, showWorkload, modalVars, dragVars, filterVars,
                   asyncVars, dragging>>

\* the Tabs offer month, week and list
SelectableViews == {"month", "week", "list"}

setViewType(value) ==
    /\ mounted
    /\ viewType' = value
    /\ UNCHANGED <<envVars, currentDate, selectedDate, showWorkload, modalVars, dragVars,
                   filterVars, asyncVars, dragging>>

\* a click on a day cell of the month grid, or a date picked in the MiniCalendar
setSelectedDate(date) ==
    /\ mounted
    /\ selectedDate' = date
    /\ UNCHANGED <<envVars, currentDate, viewType, showWorkload, modalVars, dragVars,
                   filterVars, asyncVars, dragging>>

setShowWorkload(checked) ==
    /\ mounted
    /\ showWorkload' = checked
    /\ UNCHANGED <<envVars, currentDate, selectedDate, viewType, modalVars, dragVars,
                   filterVars, asyncVars, dragging>>

setSearchQuery(value) ==
    /\ mounted
    /\ searchQuery' = value
    /\ UNCHANGED <<envVars, viewVars, modalVars, dragVars, filterProject, filterType,
                   asyncVars, dragging>>

setFilterProject(value) ==
    /\ mounted
    /\ value \in {"all"} \cup projects
    /\ filterProject' = value
    /\ UNCHANGED <<envVars, viewVars, modalVars, dragVars, searchQuery, filterType,
                   asyncVars, dragging>>

setFilterType(value) ==
    /\ mounted
    /\ value \in {"all"} \cup ItemTypes
    /\ filterType' = value
    /\ UNCHANGED <<envVars, viewVars, modalVars, dragVars, searchQuery, filterProject,
                   asyncVars, dragging>>

-----------------------------------------------------------------------------
(* Drag and drop.                                                          *)

\* what the browser is dragging
NotDragging == "none"
ItemDrag == "item"
ForeignDrag == "foreign"

\* The focus-mode overlay covers the calendar, and a button cannot be clicked
\* in the middle of a drag.
calendarReachable == mounted /\ ~isFocusModeOpen

\* onDragStart of a rendered item: the browser starts dragging it
handleDragStart(item) ==
    /\ calendarReachable
    /\ dragging = NotDragging
    /\ item \in draggableItems
    /\ draggedItem' = item
    /\ dragging' = ItemDrag
    /\ UNCHANGED <<envVars, viewVars, modalVars, draggedOver, filterVars, asyncVars>>

\* something that is not a calendar item (a file, a selection) is dragged in
foreignDragStart ==
    /\ calendarReachable
    /\ dragging = NotDragging
    /\ dragging' = ForeignDrag
    /\ UNCHANGED <<envVars, viewVars, modalVars, dragVars, filterVars, asyncVars>>

handleDragOver(date) ==
    /\ mounted
    /\ dragging # NotDragging
    /\ date \in dropCells
    /\ draggedOver' = date
    /\ UNCHANGED <<envVars, viewVars, modalVars, draggedItem, filterVars, asyncVars, dragging>>

\* the drag ends away from every day cell (released elsewhere, or Escape):
\* the component has no onDragEnd handler
dragEnd ==
    /\ mounted
    /\ dragging # NotDragging
    /\ dragging' = NotDragging
    /\ UNCHANGED <<envVars, viewVars, modalVars, dragVars, filterVars, asyncVars>>

OneHourMs == 60 * 60 * 1000

\* the item's own end time is never looked at
dropDurationAlwaysOneHour(item) == OneHourMs

\* draggedItem.endTime ? parseISO(endTime).getTime() - parseISO(startTime!).getTime() : 1 h
dropDuration(item) ==
    IF item.endTime # NoIso
    THEN timeDiff(parseISO(item.endTime), parseISO(item.startTime))
    ELSE OneHourMs

\* the duration is NaN, and new Date(NaN).toISOString() throws RangeError
dropThrows(item) ==
    /\ item.type \in {"event", "timeblock"}
    /\ item.endTime # NoIso
    /\ item.startTime = NoIso

\* the store call handleDrop makes for the dragged item and the drop day
dropCall(item, date) ==
    LET newDate == startOfDay(date)
        end == toISOString(addMillis(newDate, dropDuration(item)))
    IN  CASE item.type = "task" ->
               StoreCall("updateTask", item.id, [dueDate |-> toISOString(newDate)])
          [] item.type = "event" ->
               StoreCall("updateEvent", item.id,
                         [startDate |-> toISOString(newDate), endDate |-> end])
          [] item.type = "timeblock" ->
               StoreCall("updateTimeBlock", item.id,
                         [startTime |-> toISOString(newDate), endTime |-> end])

dropAwaits(item) == item.type \in {"task", "event", "timeblock"} /\ ~dropThrows(item)

\* onDrop of a day cell
handleDrop(date) ==
    /\ mounted
    /\ dragging # NotDragging
    /\ date \in dropCells
    /\ dragging' = NotDragging
    /\ IF draggedItem = NullItem
       THEN \* if (!draggedItem) return;
            UNCHANGED <<dragVars, asyncVars>>
       ELSE IF dropAwaits(draggedItem)
       THEN \* runs to the await of the store call
            /\ roomForToast
            /\ pending' = pending \cup
                   {Awaiting("handleDrop", dropCall(draggedItem, date), freshTicket)}
            /\ UNCHANGED <<dragVars, mounted, toasts, unhandledRejections>>
       ELSE \* no await is reached: try, then catch or not, then finally, in one go
            /\ roomForToast
            /\ toasts' = Append(toasts, IF dropThrows(draggedItem)
                                        THEN rescheduleErrorToast ELSE successToast)
            /\ draggedItem' = NullItem
            /\ draggedOver' = NullDate
            /\ UNCHANGED <<mounted, pending, unhandledRejections>>
    /\ UNCHANGED <<envVars, viewVars, modalVars, filterVars>>

-----------------------------------------------------------------------------
(* Focus mode and the form modals.                                         *)

openFocusMode ==
    /\ mounted
    /\ dragging = NotDragging
    /\ isFocusModeOpen' = TRUE
    /\ UNCHANGED <<envVars, viewVars, isTaskFormOpen, isEventFormOpen, isTimeBlockFormOpen,
                   isRecurrenceFormOpen, editingItem, dragVars, filterVars, asyncVars,
                   dragging>>

closeFocusMode ==
    /\ mounted
    /\ isFocusModeOpen
    /\ isFocusModeOpen' = FALSE
    /\ UNCHANGED <<envVars, viewVars, isTaskFormOpen, isEventFormOpen, isTimeBlockFormOpen,
                   isRecurrenceFormOpen, editingItem, dragVars, filterVars, asyncVars,
                   dragging>>

\* calendarItems.find(i => i.id === id)
RECURSIVE findFrom(_, _, _)
findFrom(items, id, index) ==
    IF index > Len(items) THEN NullItem
    ELSE IF items[index].id = id THEN items[index]
    ELSE findFrom(items, id, index + 1)

findItem(items, id) == findFrom(items, id, 1)

\* the event case falls into the task case
updateOpEventAsTask(type) ==
    CASE type = "task" -> "updateTask"
      [] type = "event" -> "updateTask"
      [] type = "timeblock" -> "updateTimeBlock"
      [] OTHER -> "none"

updateOp(type) ==
    CASE type = "task" -> "updateTask"
      [] type = "event" -> "updateEvent"
      [] type = "timeblock" -> "updateTimeBlock"
      [] OTHER -> "none"

\* FocusMode's onUpdateItem
handleUpdateCalendarItem(id, updates) ==
    /\ mounted
    /\ isFocusModeOpen
    /\ LET item == findItem(calendarItems, id)
       IN  IF item # NullItem /\ updateOp(item.type) # "none"
           THEN /\ roomForToast
                /\ pending' = pending \cup
                       {Awaiting("handleUpdateCalendarItem",
                                 StoreCall(updateOp(item.type), id, updates), freshTicket)}
           ELSE UNCHANGED pending
    /\ UNCHANGED <<envVars, viewVars, modalVars, dragVars, filterVars, mounted, toasts,
                   unhandledRejections, dragging>>

handleCreateTimeBlock ==
    /\ mounted
    /\ editingItem' = NullItem
    /\ selectedDate' = selectedDate
    /\ isTimeBlockFormOpen' = TRUE
    /\ UNCHANGED <<envVars, currentDate, viewType, showWorkload, isTaskFormOpen,
                   isEventFormOpen, isFocusModeOpen, isRecurrenceFormOpen, dragVars,
                   filterVars, asyncVars, dragging>>

\* the switch without its breaks: each case falls through to the next ones
handleEditItemFallingThrough(item) ==
    /\ mounted
    /\ item \in clickableItems
    /\ editingItem' = item
    /\ isTaskFormOpen' = (IF item.type = "task" THEN TRUE ELSE isTaskFormOpen)
    /\ isEventFormOpen' = (IF item.type \in {"task", "event"} THEN TRUE ELSE isEventFormOpen)
    /\ isTimeBlockFormOpen' =
           (IF item.type \in {"task", "event", "timeblock"} THEN TRUE ELSE isTimeBlockFormOpen)
    /\ UNCHANGED <<envVars, viewVars, isFocusModeOpen, isRecurrenceFormOpen, dragVars,
                   filterVars, asyncVars, dragging>>

handleEditItem(item) ==
    /\ mounted
    /\ item \in clickableItems
    /\ editingItem' = item
    /\ isTaskFormOpen' = (IF item.type = "task" THEN TRUE ELSE isTaskFormOpen)
    /\ isEventFormOpen' = (IF item.type = "event" THEN TRUE ELSE isEventFormOpen)
    /\ isTimeBlockFormOpen' = (IF item.type = "timeblock" THEN TRUE ELSE isTimeBlockFormOpen)
    /\ UNCHANGED <<envVars, viewVars, isFocusModeOpen, isRecurrenceFormOpen, dragVars,
                   filterVars, asyncVars, dragging>>

\* onClose without setEditingItem(null)
closeTaskFormKeepingItem ==
    /\ mounted
    /\ isTaskFormOpen
    /\ isTaskFormOpen' = FALSE
    /\ UNCHANGED <<envVars, viewVars, isEventFormOpen, isTimeBlockFormOpen, isFocusModeOpen,
                   isRecurrenceFormOpen, editingItem, dragVars, filterVars, asyncVars,
                   dragging>>

closeTaskForm ==
    /\ mounted
    /\ isTaskFormOpen
    /\ isTaskFormOpen' = FALSE
    /\ editingItem' = NullItem
    /\ UNCHANGED <<envVars, viewVars, isEventFormOpen, isTimeBlockFormOpen, isFocusModeOpen,
                   isRecurrenceFormOpen, dragVars, filterVars, asyncVars, dragging>>

closeEventForm ==
    /\ mounted
    /\ isEventFormOpen
    /\ isEventFormOpen' = FALSE
    /\ editingItem' = NullItem
    /\ UNCHANGED <<envVars, viewVars, isTaskFormOpen, isTimeBlockFormOpen, isFocusModeOpen,
                   isRecurrenceFormOpen, dragVars, filterVars, asyncVars, dragging>>

closeTimeBlockForm ==
    /\ mounted
    /\ isTimeBlockFormOpen
    /\ isTimeBlockFormOpen' = FALSE
    /\ editingItem' = NullItem
    /\ UNCHANGED <<envVars, viewVars, isTaskFormOpen, isEventFormOpen, isFocusModeOpen,
                   isRecurrenceFormOpen, dragVars, filterVars, asyncVars, dragging>>

\* the record each form modal is given to edit
taskFormTask == IF editingItem.type = "task" THEN editingItem.originalItem ELSE NoRecord
eventFormEvent == IF editingItem.type = "event" THEN editingItem.originalItem ELSE NoRecord
timeBlockFormTimeBlock ==
    IF editingItem.type = "timeblock" THEN editingItem.originalItem ELSE NoRecord

-----------------------------------------------------------------------------
(* The store settles a request and the awaiting handler resumes.           *)

\* the toast is left out
dropResumesWithoutToast(toast) ==
    /\ draggedItem' = NullItem
    /\ draggedOver' = NullDate
    /\ UNCHANGED <<toasts, unhandledRejections>>

\* handleDrop after the await: the toast, then finally
dropResumes(toast) ==
    /\ toasts' = Append(toasts, toast)
    /\ draggedItem' = NullItem
    /\ draggedOver' = NullDate
    /\ UNCHANGED unhandledRejections

storeResolves(p) ==
    /\ p \in pending
    /\ pending' = pending \ {p}
    /\ IF p.handler = "handleDrop" THEN dropResumes(successToast)
       ELSE UNCHANGED <<dragVars, toasts, unhandledRejections>>
    /\ UNCHANGED <<envVars, viewVars, modalVars, filterVars, mounted, dragging>>

\* a rejected request is sent again
storeRejectsAndRetries(p) ==
    /\ p \in pending
    /\ pending' = (pending \ {p}) \cup {[p EXCEPT !.ticket = Cardinality(pending) + 1]}
    /\ CASE p.handler = "handleDrop" -> dropResumes(rescheduleErrorToast)
         [] p.handler = "handleUpdateCalendarItem" ->
              /\ toasts' = Append(toasts, updateErrorToast)
              /\ UNCHANGED <<dragVars, unhandledRejections>>
         [] p.handler = "rollover" ->
              /\ unhandledRejections' = unhandledRejections + 1
              /\ UNCHANGED <<dragVars, toasts>>
    /\ UNCHANGED <<envVars, viewVars, modalVars, filterVars, mounted, dragging>>

storeRejects(p) ==
    /\ p \in pending
    /\ pending' = pending \ {p}
    /\ CASE p.handler = "handleDrop" -> dropResumes(rescheduleErrorToast)
         [] p.handler = "handleUpdateCalendarItem" ->
              /\ toasts' = Append(toasts, updateErrorToast)
              /\ UNCHANGED <<dragVars, unhandledRejections>>
         [] p.handler = "rollover" ->
              /\ unhandledRejections' = unhandledRejections + 1
              /\ UNCHANGED <<dragVars, toasts>>
    /\ UNCHANGED <<envVars, viewVars, modalVars, filterVars, mounted, dragging>>

-----------------------------------------------------------------------------
(* The environments the page is opened in: the clock and the store.        *)

Hour == 60 * 60 * 1000

Iso(day, ms) == <<day, ms>>

EmptyStore ==
    [tasks |-> <<>>, calendarEvents |-> <<>>, goals |-> <<>>, reminders |-> <<>>,
     timeBlocks |-> <<>>]

\* One record of every kind but reminder around the current day: a task due
\* yesterday or today, an event with or without an end, a time block, a goal.
MixedStores(now) ==
    LET d == now.day
    IN  {[tasks |-> <<Task("t1", <<"a">>, NoText, "p1", Iso(d + off, 17 * Hour), rolled)>>,
          calendarEvents |-> <<Event("e1", <<"b">>, <<"a">>, "p1", Iso(d, 9 * Hour), end)>>,
          goals |-> <<Goal("g1", <<"A">>, NoText, NoProject, Iso(d + 1, 0))>>,
          reminders |-> <<>>,
          timeBlocks |-> <<TimeBlock("b1", <<"a", "b">>, NoText, "p2",
                                     Iso(d, 14 * Hour), Iso(d, 15 * Hour - 1))>>] :
            off \in {-1, 0}, rolled \in BOOLEAN,
            end \in {NoIso, Iso(d + 1, Hour)}}

InitWith(todays, Stores(_)) ==
    /\ today \in todays
    /\ store \in Stores(today)
    /\ currentDate = today
    /\ selectedDate = today
    /\ viewType = "month"
    /\ showWorkload = FALSE
    /\ isTaskFormOpen = FALSE
    /\ isEventFormOpen = FALSE
    /\ isTimeBlockFormOpen = FALSE
    /\ isFocusModeOpen = FALSE
    /\ isRecurrenceFormOpen = FALSE
    /\ editingItem = NullItem
    /\ draggedItem = NullItem
    /\ draggedOver = NullDate
    /\ searchQuery = <<>>
    /\ filterProject = "all"
    /\ filterType = "all"
    /\ mounted = FALSE
    /\ pending = {}
    /\ toasts = <<>>
    /\ unhandledRejections = 0
    /\ dragging = NotDragging

-----------------------------------------------------------------------------
(* Navigation: the page opened in the morning of one of the last days of   *)
(* the first January, over an empty store.                                 *)

OpenSpan == 6

NavTodays ==
    {[day |-> DayOfYMD(BaseYear, 0, 31) - back, ms |-> 9 * Hour + 1] : back \in 0 .. OpenSpan}

NoStores(now) == {EmptyStore}

InitNav == InitWith(NavTodays, NoStores)

NextNav ==
    \/ MountEffect
    \/ navigatePrevious
    \/ navigateNext
    \/ navigateToday
    \/ \E value \in SelectableViews : setViewType(value)

SpecNav == InitNav /\ [][NextNav]_vars

Min(a, b) == IF a < b THEN a ELSE b

\* after is before moved by delta calendar months: the month index moves by
\* delta, the day of the month is kept up to the length of the month reached,
\* the time of day is kept
MovedByMonths(before, after, delta) ==
    /\ MonthIndex(after) = MonthIndex(before) + delta
    /\ getDate(after) = Min(getDate(before),
                            DaysInMonth(getFullYear(after), getMonth(after)))
    /\ after.ms = before.ms

MovedByDays(before, after, delta) ==
    /\ after.day = before.day + delta
    /\ after.ms = before.ms

NavigationFrame == UNCHANGED <<selectedDate, viewType, filterVars>>

\* C3 (as amended): in month view navigateNext / navigatePrevious move
\* currentDate by exactly one calendar month, in week view by exactly seven
\* days, in list view they leave it where it is; selectedDate, viewType and
\* the filters are never changed by them.
C3_NavigationByOneUnit ==
    [][/\ navigateNext =>
            /\ viewType = "month" => MovedByMonths(currentDate, currentDate', 1)
            /\ viewType = "week" => MovedByDays(currentDate, currentDate', 7)
            /\ viewType = "list" => currentDate' = currentDate
            /\ NavigationFrame
       /\ navigatePrevious =>
            /\ viewType = "month" => MovedByMonths(currentDate, currentDate', -1)
            /\ viewType = "week" => MovedByDays(currentDate, currentDate', -7)
            /\ viewType = "list" => currentDate' = currentDate
            /\ NavigationFrame]_vars

\* C3 as claimed: in every view the tabs offer, list included, a click on
\* next moves currentDate forward and a click on previous moves it back
\* (wherever the calendar of the model has room for the move).
C3_NavigationMovesInEveryView ==
    (/\ mounted
     /\ viewType \in SelectableViews
     /\ NavigationInRange(addMonths(currentDate, 1))
     /\ NavigationInRange(subMonths(currentDate, 1)))
    => /\ ENABLED (navigateNext /\ isBefore(currentDate, currentDate'))
       /\ ENABLED (navigatePrevious /\ isBefore(currentDate', currentDate))

\* navigateNext in month view from a day the next month does not have
C3_Witness ==
    /\ viewType = "month"
    /\ MonthIndex(currentDate) = MonthIndex(today) + 1
    /\ getDate(currentDate) < getDate(today)
    /\ getDate(currentDate) = DaysInMonth(getFullYear(currentDate), getMonth(currentDate))

-----------------------------------------------------------------------------
(* Filtering: a task whose title, description and project vary, beside a   *)
(* fixed event and a fixed goal; the search box is typed into and erased.  *)

Alphabet == {"a", "A", "b"}

MaxQueryLen == 2

FilterStores(now) ==
    LET d == now.day
    IN  {[tasks |-> <<Task("t1", title, description, project, Iso(d, 17 * Hour), FALSE)>>,
          calendarEvents |-> <<Event("e1", <<"A", "b">>, <<"a">>, "p1",
                                     Iso(d, 9 * Hour), NoIso)>>,
          goals |-> <<Goal("g1", <<"b">>, NoText, "p2", Iso(d + 1, 0))>>,
          reminders |-> <<>>,
          timeBlocks |-> <<>>] :
            title \in {<<>>, <<"a">>, <<"b", "A">>, <<"A", "a", "b">>},
            description \in {NoText, <<"A">>, <<"b", "a">>},
            project \in {NoProject, "p1"}}

FilterTodays == {[day |-> DayOfYMD(BaseYear, 0, 15), ms |-> 9 * Hour + 1]}

InitFilter == InitWith(FilterTodays, FilterStores)

NextFilter ==
    \/ MountEffect
    \/ \E c \in Alphabet :
          /\ Len(searchQuery) < MaxQueryLen
          /\ setSearchQuery(Append(searchQuery, c))
    \/ /\ searchQuery # <<>>
       /\ setSearchQuery(SubSeq(searchQuery, 1, Len(searchQuery) - 1))
    \/ \E value \in {"all", "p1", "p2"} : setFilterProject(value)
    \/ \E value \in {"all"} \cup ItemTypes : setFilterType(value)

SpecFilter == InitFilter /\ [][NextFilter]_vars

SameLetter(c, d) == c = d \/ {c, d} = {"a", "A"} \/ {c, d} = {"b", "B"}

\* sub occurs in text at some position, letter case aside
ContainsIgnoringCase(text, sub) ==
    \E k \in 0 .. (Len(text) - Len(sub)) :
        \A j \in 1 .. Len(sub) : SameLetter(text[k + j], sub[j])

ShouldBeDisplayed(item) ==
    /\ \/ ContainsIgnoringCase(item.title, searchQuery)
       \/ item.description # NoText /\ ContainsIgnoringCase(item.description, searchQuery)
    /\ filterProject = "all" \/ item.project = filterProject
    /\ filterType = "all" \/ item.type = filterType

\* C4: filteredItems holds exactly the calendar items whose title or
\* description contains the search text (case aside), whose project is the
\* selected one or the project filter is 'all', and whose type is the selected
\* one or the type filter is 'all'; with no search text and both filters 'all'
\* it is the whole list.
C4_FilteredItemsExact ==
    /\ Range(filteredItems) = {item \in Range(calendarItems) : ShouldBeDisplayed(item)}
    /\ Len(filteredItems) = Cardinality(Range(filteredItems))
    /\ (searchQuery = <<>> /\ filterProject = "all" /\ filterType = "all")
           => filteredItems = calendarItems

\* an upper-case search text and a project filter that together keep some
\* items and drop others
C4_Witness ==
    /\ \E i \in 1 .. Len(searchQuery) : searchQuery[i] = "A"
    /\ filterProject = "p1"
    /\ filteredItems # <<>>
    /\ Len(filteredItems) < Len(calendarItems)
    /\ \E item \in Range(filteredItems) : ~includes(item.title, searchQuery)

-----------------------------------------------------------------------------
(* Drag and drop, focus mode and the store: the page opened in mid-month   *)
(* over a store with one record of every kind but reminder.                *)

MidMonth == {[day |-> DayOfYMD(BaseYear, 0, 15), ms |-> 9 * Hour + 1]}

\* the day cells the user drags over and drops on: today and the days after
DropSpan == 1

NearDays == {[day |-> today.day + k, ms |-> 0] : k \in 0 .. DropSpan}

\* what focus mode may ask for: the id of a calendar item or an id of none,
\* with a partial update
FocusIds == {"t1", "e1", "b1", "g1", "zz"}

FocusUpdates == {[status |-> "completed"]}

DnDStores(now) == {s \in MixedStores(now) : parseISO(s.tasks[1].dueDate).day < now.day}

InitDnD == InitWith(MidMonth, DnDStores)

NextDnD ==
    \/ MountEffect
    \/ \E item \in Range(calendarItems) : handleDragStart(item)
    \/ foreignDragStart
    \/ \E date \in NearDays : handleDragOver(date)
    \/ dragEnd
    \/ \E date \in NearDays : handleDrop(date)
    \/ openFocusMode
    \/ closeFocusMode
    \/ \E id \in FocusIds, updates \in FocusUpdates : handleUpdateCalendarItem(id, updates)
    \/ \E p \in pending : storeResolves(p)
    \/ \E p \in pending : storeRejects(p)

SpecDnD == InitDnD /\ [][NextDnD]_vars

-----------------------------------------------------------------------------
(* The form modals: items are clicked in every view, forms opened, closed. *)

InitModal == InitWith(MidMonth, MixedStores)

NextModal ==
    \/ MountEffect
    \/ \E value \in SelectableViews : setViewType(value)
    \/ \E date \in NearDays : setSelectedDate(date)
    \/ \E item \in Range(calendarItems) : handleEditItem(item)
    \/ handleCreateTimeBlock
    \/ closeTaskForm
    \/ closeEventForm
    \/ closeTimeBlockForm

SpecModal == InitModal /\ [][NextModal]_vars

-----------------------------------------------------------------------------
(* The mount effect alone: up to MaxTasks tasks, each due yesterday, today *)
(* or tomorrow, each flagged as rolled over before or not.                 *)

MaxTasks == 2

TaskIds == <<"t1", "t2", "t3", "t4">>

TaskVariants(now, id) ==
    {Task(id, <<"a">>, NoText, "p1", Iso(now.day + off, 17 * Hour), rolled) :
        off \in {-1, 0, 1}, rolled \in BOOLEAN}

RECURSIVE TaskLists(_, _)
TaskLists(now, n) ==
    IF n = 0 THEN {<<>>}
    ELSE {Append(tasks, task) : tasks \in TaskLists(now, n - 1),
                                task \in TaskVariants(now, TaskIds[n])}

RolloverStores(now) ==
    {[EmptyStore EXCEPT !.tasks = tasks] :
        tasks \in UNION {TaskLists(now, n) : n \in 0 .. MaxTasks}}

InitRollover == InitWith(MidMonth, RolloverStores)

NextRollover ==
    \/ MountEffect
    \/ \E p \in pending : storeResolves(p)
    \/ \E p \in pending : storeRejects(p)

SpecRollover == InitRollover /\ [][NextRollover]_vars

-----------------------------------------------------------------------------
(* The whole page.                                                         *)

AllTodays == {[day |-> d, ms |-> 9 * Hour + 1] : d \in 1 .. (MaxDay - 1)}

AllStores(now) ==
    {EmptyStore} \cup MixedStores(now) \cup FilterStores(now) \cup RolloverStores(now)

Init == InitWith(AllTodays, AllStores)

Next ==
    \/ NextNav
    \/ NextFilter
    \/ NextDnD
    \/ NextModal
    \/ NextRollover
    \/ \E checked \in BOOLEAN : setShowWorkload(checked)

Spec == Init /\ [][Next]_vars

-----------------------------------------------------------------------------
(* Properties of drag and drop, focus mode and the store requests.         *)

newRequests == pending' \ pending

StartOfDropDay(iso, date) == parseISO(iso) = [day |-> date.day, ms |-> 0]

ItemDuration(item) ==
    IF item.endTime = NoIso THEN 60 * 60 * 1000
    ELSE timeDiff(parseISO(item.endTime), parseISO(item.startTime))

\* the request is the rescheduling of item to the day of date, and no more
ReschedulesOnly(call, item, date) ==
    /\ call.id = item.id
    /\ item.type = "task" =>
          /\ call.op = "updateTask"
          /\ DOMAIN call.updates = {"dueDate"}
          /\ StartOfDropDay(call.updates.dueDate, date)
    /\ item.type = "event" =>
          /\ call.op = "updateEvent"
          /\ DOMAIN call.updates = {"startDate", "endDate"}
          /\ StartOfDropDay(call.updates.startDate, date)
          /\ timeDiff(parseISO(call.updates.endDate), parseISO(call.updates.startDate))
                 = ItemDuration(item)
    /\ item.type = "timeblock" =>
          /\ call.op = "updateTimeBlock"
          /\ DOMAIN call.updates = {"startTime", "endTime"}
          /\ StartOfDropDay(call.updates.startTime, date)
          /\ timeDiff(parseISO(call.updates.endTime), parseISO(call.updates.startTime))
                 = ItemDuration(item)

FailureOf(p, handler) == storeRejects(p) /\ p.handler = handler

\* C2 (as amended): when the store rejects a mutation requested by handleDrop
\* or handleUpdateCalendarItem, an error notification is shown and currentDate,
\* selectedDate, viewType, showWorkload, the filters, the modal flags and
\* editingItem are left as they were; a failed handleUpdateCalendarItem leaves
\* draggedItem and draggedOver too, a failed handleDrop resets both to null.
C2_FailureShowsErrorAndKeepsViewState ==
    [][\A p \in pending :
          /\ FailureOf(p, "handleDrop") =>
                /\ toasts' = Append(toasts, rescheduleErrorToast)
                /\ UNCHANGED <<viewVars, filterVars, modalVars>>
                /\ draggedItem' = NullItem
                /\ draggedOver' = NullDate
          /\ FailureOf(p, "handleUpdateCalendarItem") =>
                /\ toasts' = Append(toasts, updateErrorToast)
                /\ UNCHANGED <<viewVars, filterVars, modalVars, dragVars>>]_vars

\* C2 as claimed: after the failure draggedItem and draggedOver too are what
\* they were.
C2_FailureKeepsAllViewState ==
    [][\A p \in pending :
          /\ FailureOf(p, "handleDrop") =>
                /\ toasts' = Append(toasts, rescheduleErrorToast)
                /\ UNCHANGED <<viewVars, filterVars, modalVars, dragVars>>
          /\ FailureOf(p, "handleUpdateCalendarItem") =>
                /\ toasts' = Append(toasts, updateErrorToast)
                /\ UNCHANGED <<viewVars, filterVars, modalVars, dragVars>>]_vars

\* a drop has failed: its error is shown and the drag state is gone
C2_Witness ==
    /\ toasts = <<rescheduleErrorToast>>
    /\ draggedItem = NullItem
    /\ pending = {}

\* C5: no store mutation the component requests fails without being caught:
\* no rejection is left unhandled.
C5_NoUnhandledFailure == unhandledRejections = 0

UserCallback ==
    \/ \E date \in NearDays : handleDrop(date)
    \/ \E id \in FocusIds, updates \in FocusUpdates : handleUpdateCalendarItem(id, updates)

\* C6 (as amended): a store mutation is requested only by a user-triggered
\* callback (a drop, an update from focus mode) or by the mount effect, whose
\* requests are the auto-rollover's updateTask calls.
C6_RequestsFromCallbacksOrMount ==
    [][newRequests # {} =>
          \/ UserCallback
          \/ /\ MountEffect
             /\ \A p \in newRequests :
                   /\ p.call.op = "updateTask"
                   /\ p.call.updates.isAutoRolled = TRUE]_vars

\* C6 as claimed: only user-triggered callbacks request store mutations.
C6_RequestsFromCallbacksOnly == [][newRequests # {} => UserCallback]_vars

\* the page has just been mounted, nothing was touched, a request is in flight
C6_Witness ==
    /\ mounted
    /\ pending # {}
    /\ \A p \in pending : p.handler = "rollover"
    /\ toasts = <<>>
    /\ draggedItem = NullItem
    /\ ~isFocusModeOpen

\* C8: while a later drag is in progress, the completion of an earlier drop
\* leaves draggedItem and draggedOver alone.
C8_EarlierDropKeepsLaterDrag ==
    [][\A p \in pending :
          ((storeResolves(p) \/ storeRejects(p)) /\ p.handler = "handleDrop"
              /\ dragging = ItemDrag)
          => UNCHANGED dragVars]_vars

Updatable(item) == item.type \in {"task", "event", "timeblock"}

ExpectedOp(item) ==
    IF item.type = "task" THEN "updateTask"
    ELSE IF item.type = "event" THEN "updateEvent"
    ELSE "updateTimeBlock"

ItemsWithId(id) == {item \in Range(calendarItems) : item.id = id}

\* C9 (as amended): an update from focus mode for id i with changes u makes
\* exactly one store call, updateTask, updateEvent or updateTimeBlock by the
\* item's type, with i and u, when the calendar item with id i is a task, an
\* event or a time block; when no calendar item has id i, or the item is a
\* goal or a reminder, it makes no call, shows nothing and changes no state.
C9_FocusUpdateIsOneCallByType ==
    [][\A id \in FocusIds, updates \in FocusUpdates :
          handleUpdateCalendarItem(id, updates) =>
             /\ \A item \in ItemsWithId(id) :
                   Updatable(item) =>
                       /\ newRequests # {}
                       /\ \A p \in newRequests :
                             /\ pending' = pending \cup {p}
                             /\ p.call = StoreCall(ExpectedOp(item), id, updates)
                       /\ UNCHANGED <<toasts, viewVars, filterVars, modalVars, dragVars>>
             /\ (\A item \in ItemsWithId(id) : ~Updatable(item)) => UNCHANGED vars]_vars

\* C9 as claimed: whenever a calendar item has the id, of whatever type, the
\* update makes a store call.
C9_FocusUpdateCallsForEveryItem ==
    (mounted /\ isFocusModeOpen /\ roomForToast)
    => \A id \in FocusIds, updates \in FocusUpdates :
          ItemsWithId(id) # {}
          => ENABLED (handleUpdateCalendarItem(id, updates) /\ newRequests # {})

\* focus mode has asked for the update of the time block
C9_Witness ==
    \E p \in pending :
        /\ p.handler = "handleUpdateCalendarItem"
        /\ p.call = StoreCall("updateTimeBlock", "b1", [status |-> "completed"])

-----------------------------------------------------------------------------
(* Properties of the mount effect.                                         *)

\* C7: on mount, every task whose due date autoRolloverTasks moved is the
\* subject of exactly one updateTask(id, {dueDate: rolled date, isAutoRolled:
\* true}), whatever its flag was, and no other task is the subject of any.
C7_EveryRolledTaskUpdatedOnce ==
    [][MountEffect =>
          LET rolledTasks == autoRolloverTasks(store.tasks, today)
          IN  \A i \in 1 .. Len(store.tasks) :
                 LET about == {p \in newRequests : p.call.id = store.tasks[i].id}
                 IN  IF rolledTasks[i].dueDate # store.tasks[i].dueDate
                     THEN /\ Cardinality(about) = 1
                          /\ \A p \in about :
                                p.call = StoreCall("updateTask", store.tasks[i].id,
                                                   [dueDate |-> rolledTasks[i].dueDate,
                                                    isAutoRolled |-> TRUE])
                     ELSE about = {}]_vars

-----------------------------------------------------------------------------
(* Properties of the form modals.                                          *)

\* C10: a click on a task, event or time block item opens the form of the
\* item's type and no other, gives that form the item's original record and
\* the two other forms none; handleCreateTimeBlock opens the time block form
\* with no record to edit.
C10_ClickOpensTheItemsForm ==
    [][/\ \A item \in Range(calendarItems) :
             (handleEditItem(item) /\ Updatable(item)) =>
                /\ isTaskFormOpen' = (item.type = "task" \/ isTaskFormOpen)
                /\ isEventFormOpen' = (item.type = "event" \/ isEventFormOpen)
                /\ isTimeBlockFormOpen' = (item.type = "timeblock" \/ isTimeBlockFormOpen)
                /\ taskFormTask' =
                       (IF item.type = "task" THEN item.originalItem ELSE NoRecord)
                /\ eventFormEvent' =
                       (IF item.type = "event" THEN item.originalItem ELSE NoRecord)
                /\ timeBlockFormTimeBlock' =
                       (IF item.type = "timeblock" THEN item.originalItem ELSE NoRecord)
       /\ handleCreateTimeBlock =>
             /\ isTimeBlockFormOpen'
             /\ timeBlockFormTimeBlock' = NoRecord
             /\ taskFormTask' = NoRecord
             /\ eventFormEvent' = NoRecord]_vars

\* the event has been clicked: its form is open on its record, alone
C10_Witness ==
    /\ isEventFormOpen
    /\ ~isTaskFormOpen
    /\ ~isTimeBlockFormOpen
    /\ eventFormEvent = store.calendarEvents[1]
    /\ taskFormTask = NoRecord
    /\ timeBlockFormTimeBlock = NoRecord

-----------------------------------------------------------------------------
(* Properties of the drag state and of the drop's notification.            *)

\* a drop whose store request has not settled yet: its handler has not finished
dropInFlight == \E p \in pending : p.handler = "handleDrop"

\* C11: whenever no drag is in progress and no drop is still being handled -
\* after a drop on a day cell, with or without a dragged calendar item, and
\* after a drag that ended away from the day cells - draggedItem and
\* draggedOver are both null.
C11_NoDragNoDragState ==
    (mounted /\ dragging = NotDragging /\ ~dropInFlight)
        => (draggedItem = NullItem /\ draggedOver = NullDate)

\* a notification has just been shown, and it is the success one
successShown ==
    /\ Len(toasts') = Len(toasts) + 1
    /\ toasts'[Len(toasts')] = successToast

\* C12: the success notification of a drop is shown only in a step in which a
\* store request made by handleDrop completes without error, whatever the
\* type of the dropped item.
C12_SuccessOnlyAfterCompletedUpdate ==
    [][successShown =>
          \E p \in pending : p.handler = "handleDrop" /\ storeResolves(p)]_vars

-----------------------------------------------------------------------------
(* Properties of editingItem and of navigation there and back.             *)

allFormsClosed == ~isTaskFormOpen /\ ~isEventFormOpen /\ ~isTimeBlockFormOpen

\* C13 (as amended): while the three form modals are closed, editingItem is
\* null or an item of a type that has no form (a goal or a reminder).
C13_EditingItemOnlyWithFormOrFormless ==
    allFormsClosed => (editingItem = NullItem \/ editingItem.type \in {"goal", "reminder"})

\* C13 as claimed: while the three form modals are closed, editingItem is null.
C13_EditingItemOnlyWhileFormOpen == allFormsClosed => editingItem = NullItem

\* a time block is being edited in its form
C13_Witness ==
    /\ editingItem # NullItem
    /\ editingItem.type = "timeblock"
    /\ isTimeBlockFormOpen
    /\ ~isTaskFormOpen
    /\ ~isEventFormOpen

\* after is what a step of one month to mid and a step of one month back make
\* of before: the same month and time of day, the day of the month kept up to
\* the length of the month passed through
BackInMonth(before, mid, after) ==
    /\ MonthIndex(after) = MonthIndex(before)
    /\ getDate(after) = Min(getDate(before), DaysInMonth(getFullYear(mid), getMonth(mid)))
    /\ after.ms = before.ms

\* C14 (as amended): in week view navigateNext followed by navigatePrevious,
\* and navigatePrevious followed by navigateNext, restore currentDate; in
\* month view they restore its month, year and time of day, and its day of
\* the month unless the month passed through is shorter, in which case the
\* day of the month becomes that month's last day.
C14_ThereAndBack ==
    [][/\ navigateNext =>
            /\ viewType = "week" =>
                  navigatePreviousDate(viewType, currentDate') = currentDate
            /\ viewType = "month" =>
                  BackInMonth(currentDate, currentDate',
                              navigatePreviousDate(viewType, currentDate'))
       /\ navigatePrevious =>
            /\ viewType = "week" =>
                  navigateNextDate(viewType, currentDate') = currentDate
            /\ viewType = "month" =>
                  BackInMonth(currentDate, currentDate',
                              navigateNextDate(viewType, currentDate'))]_vars

\* C14 as claimed: in month view and in week view the step back after a step
\* forward, and the step forward after a step back, restore currentDate.
C14_ThereAndBackRestores ==
    [][/\ (navigateNext /\ viewType \in {"month", "week"}) =>
             navigatePreviousDate(viewType, currentDate') = currentDate
       /\ (navigatePrevious /\ viewType \in {"month", "week"}) =>
             navigateNextDate(viewType, currentDate') = currentDate]_vars

\* month view, opened on the 31st: next and previous have brought currentDate
\* back into the opening month, on the day the following month ends with
C14_Witness ==
    /\ viewType = "month"
    /\ getDate(today) = 31
    /\ MonthIndex(currentDate) = MonthIndex(today)
    /\ currentDate.ms = today.ms
    /\ getDate(currentDate) = DaysInMonth(getFullYear(today), getMonth(today) + 1)

=============================================================================
